---- MODULE Spec2Model ----
(***************************************************************************)
(* A model of the zip library of ASchurman/zip: the directory reader       *)
(* (File.readDirectory), the archive writer (File.writeArchive) and the    *)
(* mutation operations (AddFile, RemoveFile, ExtractFile, ExtractAll) over *)
(* a file system of named byte sequences.                                  *)
(*                                                                         *)
(* Bytes are the integers 0..255, a file is a sequence of bytes, a name is *)
(* a sequence of bytes too.  16-bit fields are integers modulo 65536.      *)
(* 32-bit sizes and offsets are integers (every archive of the model is    *)
(* far below 2^31 bytes, and TLC's integers are 32-bit signed, so TLC      *)
(* itself reports any value that would leave that range); the 32-bit CRC,  *)
(* whose values do use all 32 bits, is kept as its four little-endian      *)
(* bytes.                                                                  *)
(***************************************************************************)
EXTENDS Integers, Sequences, FiniteSets, TLC

VARIABLES fs, zf, live, last, nops

vars == <<fs, zf, live, last, nops>>

----------------------------------------------------------------------------
(* Bounds of the model *)

\* the number of library calls in one behaviour: OpenWithFs or CreateWithFs
\* first, then calls on the File it returned
MaxOps == 3

----------------------------------------------------------------------------
(* Bytes and little-endian fields (encoding/binary, LittleEndian) *)

Min(a, b) == IF a < b THEN a ELSE b

\* binary.Write of a uint16
LE16(n) == <<n % 256, (n \div 256) % 256>>

\* binary.Write of a uint32 (sizes and offsets)
LE32(n) == <<n % 256, (n \div 256) % 256, (n \div 65536) % 256, (n \div 16777216) % 256>>

\* binary.LittleEndian.Uint16 of the two bytes at 0-based [i, i+2) of buf
Uint16(buf, i) == buf[i + 1] + 256 * buf[i + 2]

\* binary.LittleEndian.Uint32 of the four bytes at 0-based [i, i+4) of buf
Uint32(buf, i) == buf[i + 1] + 256 * buf[i + 2] + 65536 * buf[i + 3] + 16777216 * buf[i + 4]

\* buf[i:j] of Go, 0-based and half-open
Slice(buf, i, j) == SubSeq(buf, i + 1, j)

\* the at most n bytes of data that start at 0-based position pos
\* (what io.LimitReader(file, n) delivers to io.Copy before EOF)
Window(data, pos, n) ==
    IF pos >= Len(data) THEN <<>> ELSE SubSeq(data, pos + 1, Min(pos + n, Len(data)))

----------------------------------------------------------------------------
(* CRC-32 (hash/crc32.ChecksumIEEE): the table-driven algorithm for the    *)
(* reflected polynomial 0xEDB88320, on a register of 32 bits, the least    *)
(* significant first.                                                      *)

RECURSIVE BitsOf(_, _)
BitsOf(n, w) == IF w = 0 THEN <<>> ELSE <<n % 2>> \o BitsOf(n \div 2, w - 1)

RECURSIVE NumOf(_)
NumOf(bits) == IF bits = <<>> THEN 0 ELSE bits[1] + 2 * NumOf(Tail(bits))

\* 0xEDB88320 as the bytes 20 83 B8 ED
PolyBits == BitsOf(32, 8) \o BitsOf(131, 8) \o BitsOf(184, 8) \o BitsOf(237, 8)

XorBits(a, b) == SubSeq([i \in 1..Len(a) |-> (a[i] + b[i]) % 2], 1, Len(a))

\* one bit of the polynomial division
CrcShift(reg) ==
    LET sh == Tail(reg) \o <<0>>
    IN  IF reg[1] = 1 THEN XorBits(sh, PolyBits) ELSE sh

RECURSIVE CrcShifts(_, _)
CrcShifts(reg, k) == IF k = 0 THEN reg ELSE CrcShifts(CrcShift(reg), k - 1)

\* crc32.IEEETable: the entry of the byte b is at b + 1
IEEETable == [b \in 1..256 |-> CrcShifts(BitsOf(b - 1, 32), 8)]

\* crc = table[byte(crc) ^ b] ^ (crc >> 8) for one byte b
CrcByte(reg, b) ==
    XorBits(IEEETable[NumOf(XorBits(SubSeq(reg, 1, 8), BitsOf(b, 8))) + 1],
            SubSeq(reg, 9, 32) \o <<0, 0, 0, 0, 0, 0, 0, 0>>)

\* the loop over the bytes of data in order, the first half before the second,
\* on a register of 32 bits
RECURSIVE CrcUpdate(_, _)
CrcUpdate(reg, data) ==
    IF Len(reg) # 32 \/ data = <<>> THEN reg
    ELSE IF Len(data) = 1 THEN CrcByte(reg, data[1])
    ELSE CrcUpdate(CrcUpdate(reg, SubSeq(data, 1, Len(data) \div 2)),
                   SubSeq(data, Len(data) \div 2 + 1, Len(data)))

AllOnes == [i \in 1..32 |-> 1]

\* the checksum as its four little-endian bytes
ChecksumIEEE(data) ==
    LET fin == XorBits(CrcUpdate(AllOnes, data), AllOnes)
    IN  <<NumOf(SubSeq(fin, 1, 8)), NumOf(SubSeq(fin, 9, 16)),
          NumOf(SubSeq(fin, 17, 24)), NumOf(SubSeq(fin, 25, 32))>>

----------------------------------------------------------------------------
(* Names, file handles and the File struct *)

\* the archive path "z" and the member names "a", "b", "c"
ArchiveName == <<122>>
NameA == <<97>>
NameB == <<98>>
NameC == <<99>>

COMPRESS_STORED == 0
COMPRESS_DEFLATED == 8
CENTRAL_DIR_MIN_SIZE == 22
VERSION_MADE_BY == 20
VERSION_NEEDED == 20
FLAGS == 0
INTERNAL_ATTR == 0
EXTERNAL_ATTR == 0

\* tempName: fmt.Sprintf("%s.tmp", fileName)
tempName(fileName) == fileName \o <<46, 116, 109, 112>>

\* An afero.File handle: st is "nil" (no handle), "open" or "closed"; an open
\* handle reads the bytes of the file it was opened on, from position pos.
NilHandle == [st |-> "nil", data |-> <<>>, pos |-> 0]
OpenHandle(bytes) == [st |-> "open", data |-> bytes, pos |-> 0]
ClosedHandle == [st |-> "closed", data |-> <<>>, pos |-> 0]

\* no error
OK == "ok"

\* fileHeader{}: the zero value
ZeroHeader ==
    [versionMadeBy |-> 0, versionNeeded |-> 0, flags |-> 0, compressionMethod |-> 0,
     dosTime |-> 0, dosDate |-> 0, crc |-> <<0, 0, 0, 0>>, compressedSize |-> 0,
     uncompressedSize |-> 0, nameLength |-> 0, extraLengthLocal |-> 0,
     extraLengthCentral |-> 0, commentLength |-> 0, internalAttr |-> 0,
     externalAttr |-> 0, offsetLocalHeader |-> 0, fileName |-> <<>>, comment |-> <<>>]

\* File{Name: name, fs: fs}: the zero value of the other fields
ZeroFile ==
    [file |-> NilHandle, numEntries |-> 0, centralDirSize |-> 0, centralDirOffset |-> 0,
     commentLength |-> 0, comment |-> <<>>, fileHeaders |-> <<>>]

\* the index of the first header named name, 0 if there is none
RECURSIVE IndexFrom(_, _, _)
IndexFrom(hs, name, i) ==
    IF i > Len(hs) THEN 0
    ELSE IF hs[i].fileName = name THEN i
    ELSE IndexFrom(hs, name, i + 1)

IndexOfName(hs, name) == IndexFrom(hs, name, 1)

\* append(hs[:i], hs[i+1:]...) for the 1-based index i
RemoveAt(hs, i) == SubSeq(hs, 1, i - 1) \o SubSeq(hs, i + 1, Len(hs))

----------------------------------------------------------------------------
(* readDirectory *)

SigEOCD == <<80, 75, 5, 6>>
SigCentral == <<80, 75, 1, 2>>
SigLocal == <<80, 75, 3, 4>>

\* the offset the loop stops at when what it tests first gives upper, and
\* otherwise what it tests later gives lower
ScanThen(upper, lower) == IF upper # -1 THEN upper ELSE lower

\* the iterations of the loop for the offsets hi down to lo: the first offset
\* met whose four bytes are the end-of-central-directory signature, -1 if none
RECURSIVE ScanRange(_, _, _)
ScanRange(data, lo, hi) ==
    IF hi < lo THEN -1
    ELSE IF lo = hi THEN (IF Slice(data, hi, hi + 4) = SigEOCD THEN hi ELSE -1)
    ELSE ScanThen(ScanRange(data, (lo + hi) \div 2 + 1, hi),
                  ScanRange(data, lo, (lo + hi) \div 2))

\* a scan that gives up before the offset 0
ScanAboveZero(data, p) == ScanRange(data, 1, p)

\* the backward scan from the offset p: it goes on until Seek reports a
\* position < 0, which gives -1
ScanEOCD(data, p) == ScanRange(data, 0, p)

\* binary.Read of n bytes at position pos succeeds
CanRead(data, pos, n) == n = 0 \/ pos + n <= Len(data)

\* one central-directory record at buffer[i:], after the length checks
CentralHeaderAt(buffer, i) ==
    LET nl == Uint16(buffer, i + 28)
        xl == Uint16(buffer, i + 30)
        cl == Uint16(buffer, i + 32)
    IN  [versionMadeBy |-> Uint16(buffer, i + 4),
         versionNeeded |-> Uint16(buffer, i + 6),
         flags |-> Uint16(buffer, i + 8),
         compressionMethod |-> Uint16(buffer, i + 10),
         dosTime |-> Uint16(buffer, i + 12),
         dosDate |-> Uint16(buffer, i + 14),
         crc |-> Slice(buffer, i + 16, i + 20),
         compressedSize |-> Uint32(buffer, i + 20),
         uncompressedSize |-> Uint32(buffer, i + 24),
         nameLength |-> nl,
         extraLengthLocal |-> 0,
         extraLengthCentral |-> xl,
         commentLength |-> cl,
         internalAttr |-> Uint16(buffer, i + 36),
         externalAttr |-> Uint32(buffer, i + 38),
         offsetLocalHeader |-> Uint32(buffer, i + 42),
         fileName |-> Slice(buffer, i + 46, i + 46 + nl),
         comment |-> IF cl > 0 THEN Slice(buffer, i + 46 + nl + xl, i + 46 + nl + xl + cl)
                     ELSE <<>>]

\* the run-time bounds check of buffer[lo:hi], and of buffer[lo] .. buffer[hi-1]
InBuffer(buffer, lo, hi) == 0 <= lo /\ lo <= hi /\ hi <= Len(buffer)

\* a parse that takes the records up to the first one that does not fit or
\* has no signature, and reports no error
RECURSIVE ParseCentralLenient(_, _, _, _, _)
ParseCentralLenient(buffer, i, entry, numEntries, hs) ==
    IF entry >= numEntries THEN [err |-> OK, hs |-> hs]
    ELSE IF Len(buffer) < i + 46 THEN [err |-> OK, hs |-> hs]
    ELSE IF Slice(buffer, i, i + 4) # SigCentral THEN [err |-> OK, hs |-> hs]
    ELSE IF Len(buffer) < i + 46 + Uint16(buffer, i + 28) + Uint16(buffer, i + 30)
                               + Uint16(buffer, i + 32)
         THEN [err |-> OK, hs |-> hs]
    ELSE ParseCentralLenient(buffer,
                             i + 46 + Uint16(buffer, i + 28) + Uint16(buffer, i + 30)
                               + Uint16(buffer, i + 32),
                             entry + 1, numEntries, Append(hs, CentralHeaderAt(buffer, i)))

\* a parse that trusts numEntries and the lengths of a record
RECURSIVE ParseCentralUnchecked(_, _, _, _, _)
ParseCentralUnchecked(buffer, i, entry, numEntries, hs) ==
    IF entry >= numEntries THEN [err |-> OK, hs |-> hs]
    ELSE IF ~InBuffer(buffer, i, i + 4) THEN [err |-> "panic", hs |-> hs]
    ELSE IF Slice(buffer, i, i + 4) # SigCentral THEN [err |-> "centralsig", hs |-> hs]
    ELSE IF ~InBuffer(buffer, i + 4, i + 46) THEN [err |-> "panic", hs |-> hs]
    ELSE IF ~InBuffer(buffer, i + 46,
                      i + 46 + Uint16(buffer, i + 28) + Uint16(buffer, i + 30)
                        + Uint16(buffer, i + 32))
         THEN [err |-> "panic", hs |-> hs]
    ELSE ParseCentralUnchecked(buffer,
                               i + 46 + Uint16(buffer, i + 28) + Uint16(buffer, i + 30)
                                 + Uint16(buffer, i + 32),
                               entry + 1, numEntries, Append(hs, CentralHeaderAt(buffer, i)))

\* the loop over the numEntries records of the central directory buffer; an
\* index outside the buffer panics
RECURSIVE ParseCentral(_, _, _, _, _)
ParseCentral(buffer, i, entry, numEntries, hs) ==
    IF entry >= numEntries THEN [err |-> OK, hs |-> hs]
    ELSE IF Len(buffer) < i + 46 THEN [err |-> "malformed46", hs |-> hs]
    ELSE IF ~InBuffer(buffer, i, i + 4) THEN [err |-> "panic", hs |-> hs]
    ELSE IF Slice(buffer, i, i + 4) # SigCentral THEN [err |-> "centralsig", hs |-> hs]
    ELSE IF ~InBuffer(buffer, i + 4, i + 46) THEN [err |-> "panic", hs |-> hs]
    ELSE IF Len(buffer) < i + 46 + Uint16(buffer, i + 28) + Uint16(buffer, i + 30)
                               + Uint16(buffer, i + 32)
         THEN [err |-> "malformeddata", hs |-> hs]
    ELSE IF ~InBuffer(buffer, i + 46, i + 46 + Uint16(buffer, i + 28)
                                       + Uint16(buffer, i + 30) + Uint16(buffer, i + 32))
         THEN [err |-> "panic", hs |-> hs]
    ELSE ParseCentral(buffer,
                      i + 46 + Uint16(buffer, i + 28) + Uint16(buffer, i + 30)
                        + Uint16(buffer, i + 32),
                      entry + 1, numEntries, Append(hs, CentralHeaderAt(buffer, i)))

\* a check that takes the extra length of the central directory for the one
\* of the local header
CheckOneCentral(hs, k, off, buffer) ==
    IF Slice(buffer, 0, 4) # SigLocal THEN [err |-> "localsig", hs |-> hs, pos |-> off + 30]
    ELSE IF hs[k].nameLength # Uint16(buffer, 26)
         THEN [err |-> "localname", hs |-> hs, pos |-> off + 30]
    ELSE [err |-> OK, hs |-> [hs EXCEPT ![k].extraLengthLocal = hs[k].extraLengthCentral],
          pos |-> off + 30]

\* one local file header: the 30 bytes buffer read at the offset off
CheckOne(hs, k, off, buffer) ==
    IF Slice(buffer, 0, 4) # SigLocal THEN [err |-> "localsig", hs |-> hs, pos |-> off + 30]
    ELSE IF hs[k].nameLength # Uint16(buffer, 26)
         THEN [err |-> "localname", hs |-> hs, pos |-> off + 30]
    ELSE [err |-> OK, hs |-> [hs EXCEPT ![k].extraLengthLocal = Uint16(buffer, 28)],
          pos |-> off + 30]

\* the loop over the local file headers, from the 1-based index k on; c is
\* the result so far
RECURSIVE CheckLocal(_, _, _)
CheckLocal(data, c, k) ==
    IF k > Len(c.hs) \/ c.err # OK THEN c
    ELSE IF ~CanRead(data, c.hs[k].offsetLocalHeader, 30)
         THEN [c EXCEPT !.err = "localread", !.pos = c.hs[k].offsetLocalHeader]
    ELSE CheckLocal(data,
                    CheckOne(c.hs, k, c.hs[k].offsetLocalHeader,
                             Slice(data, c.hs[k].offsetLocalHeader,
                                   c.hs[k].offsetLocalHeader + 30)),
                    k + 1)

ReadFailed(e) == [err |-> e, zf |-> ZeroFile]

\* the end of readDirectory: loc is the result of the loop over the local headers
ReadLocals(data, eocd, loc) ==
    IF loc.err # OK THEN ReadFailed(loc.err)
    ELSE [err |-> OK,
          zf |-> [file |-> [st |-> "open", data |-> data, pos |-> loc.pos],
                  numEntries |-> eocd.numEntries,
                  centralDirSize |-> eocd.centralDirSize,
                  centralDirOffset |-> eocd.centralDirOffset,
                  commentLength |-> eocd.commentLength,
                  comment |-> eocd.comment,
                  fileHeaders |-> loc.hs]]

\* readDirectory once the central directory is parsed
ReadCentral(data, eocd, parsed) ==
    IF parsed.err # OK THEN ReadFailed(parsed.err)
    ELSE ReadLocals(data, eocd,
                    CheckLocal(data,
                               [err |-> OK, hs |-> parsed.hs,
                                pos |-> eocd.centralDirOffset + eocd.centralDirSize],
                               1))

\* readDirectory once the end-of-central-directory record is found at p
ReadRecord(data, p, eocd) ==
    IF ~CanRead(data, p + 22, eocd.commentLength) THEN ReadFailed("comment")
    ELSE IF ~CanRead(data, eocd.centralDirOffset, eocd.centralDirSize)
         THEN ReadFailed("centralread")
    ELSE ReadCentral(data,
                     [eocd EXCEPT !.comment = Slice(data, p + 22, p + 22 + eocd.commentLength)],
                     ParseCentral(Slice(data, eocd.centralDirOffset,
                                        eocd.centralDirOffset + eocd.centralDirSize),
                                  0, 0, eocd.numEntries, <<>>))

\* the fixed fields of the record in the 22 bytes buffer
EndRecord(buffer) ==
    [numEntries |-> Uint16(buffer, 10),
     centralDirSize |-> Uint32(buffer, 12),
     centralDirOffset |-> Uint32(buffer, 16),
     commentLength |-> Uint16(buffer, 20),
     comment |-> <<>>]

ReadFrom(data, p) ==
    IF p < 0 THEN ReadFailed("noeocd")
    ELSE ReadRecord(data, p, EndRecord(Slice(data, p, p + 22)))

\* readDirectory on a handle open on data: err and the File it fills in
readDirectory(data) == ReadFrom(data, ScanEOCD(data, Len(data) - 22))

----------------------------------------------------------------------------
(* writeArchive *)

\* A fault is the one I/O call of a library call that the file system makes
\* fail: <<step, entry, field>>, entry and field 0 where they do not apply.
NoFault == <<"none", 0, 0>>

RECURSIVE Concat(_)
Concat(parts) == IF parts = <<>> THEN <<>> ELSE Head(parts) \o Concat(Tail(parts))

\* the binary.Write calls of a record in order; the one whose number is skip
\* (0: none) fails and writes nothing
WriteAll(parts, skip) ==
    Concat([k \in 1..Len(parts) |-> IF k = skip THEN <<>> ELSE parts[k]])

\* the twelve binary.Write calls of a local file header
LocalHeaderWrites(fh) ==
    << SigLocal, LE16(fh.versionNeeded), LE16(fh.flags), LE16(fh.compressionMethod),
       LE16(fh.dosTime), LE16(fh.dosDate), fh.crc, LE32(fh.compressedSize),
       LE32(fh.uncompressedSize), LE16(fh.nameLength), <<0, 0>>, fh.fileName >>

\* the nineteen binary.Write calls of a central directory file header
CentralHeaderWrites(fh) ==
    << SigCentral, LE16(fh.versionMadeBy), LE16(fh.versionNeeded), LE16(fh.flags),
       LE16(fh.compressionMethod), LE16(fh.dosTime), LE16(fh.dosDate), fh.crc,
       LE32(fh.compressedSize), LE32(fh.uncompressedSize), LE16(fh.nameLength), <<0, 0>>,
       LE16(fh.commentLength), LE16(0), LE16(fh.internalAttr), LE32(fh.externalAttr),
       LE32(fh.offsetLocalHeader), fh.fileName, fh.comment >>

\* the nine binary.Write calls of the end-of-central-directory record
EndRecordWrites(z) ==
    << SigEOCD, LE16(0), LE16(0), LE16(z.numEntries), LE16(z.numEntries),
       LE32(z.centralDirSize), LE32(z.centralDirOffset), LE16(z.commentLength), z.comment >>

\* zf.file after zf.file.Seek(fileDataOffset, SeekStart), its error dropped
SeekData(h, fh, i, fault) ==
    IF h.st = "open" /\ fault # <<"src_seek", i, 0>>
    THEN [h EXCEPT !.pos = fh.offsetLocalHeader + 30 + fh.nameLength + fh.extraLengthLocal]
    ELSE h

\* the local file header of the entry i as binary.Write leaves it in outfile
LocalHeaderBytes(fh, i, fault) ==
    WriteAll(LocalHeaderWrites(fh), IF fault[1] = "lh_write" /\ fault[2] = i THEN fault[3] ELSE 0)

\* One pass of the first loop for an entry of the old archive; h is zf.file
\* after its Seek, data the bytes io.Copy gets from it.
WriteOld(w, i, fh, h, data, fault) ==
    IF fault = <<"out_seek", i, 0>> THEN [w EXCEPT !.z.file = h, !.err = "io"]
    ELSE IF fault = <<"copy", i, 0>> \/ (h.st = "closed" /\ fh.compressedSize > 0)
         THEN [z |-> [w.z EXCEPT !.file = h,
                                !.fileHeaders[i].offsetLocalHeader = Len(w.out),
                                !.fileHeaders[i].extraLengthLocal = 0],
               out |-> w.out \o LocalHeaderBytes(fh, i, fault),
               np |-> w.np,
               err |-> "io"]
    ELSE [z |-> [w.z EXCEPT !.file = [h EXCEPT !.pos = h.pos + Len(data)],
                           !.fileHeaders[i].offsetLocalHeader = Len(w.out),
                           !.fileHeaders[i].extraLengthLocal = 0],
          out |-> w.out \o LocalHeaderBytes(fh, i, fault) \o data,
          np |-> w.np,
          err |-> OK]

\* One pass of the first loop for the new entry; np is the position of newData
\* after newData.Seek(0, SeekStart), its error dropped
WriteNew(w, i, fh, newData, np, fault) ==
    IF fault = <<"out_seek", i, 0>> THEN [w EXCEPT !.np = np, !.err = "io"]
    ELSE IF fault = <<"copy", i, 0>>
         THEN [z |-> [w.z EXCEPT !.fileHeaders[i].offsetLocalHeader = Len(w.out),
                                !.fileHeaders[i].extraLengthLocal = 0],
               out |-> w.out \o LocalHeaderBytes(fh, i, fault),
               np |-> np,
               err |-> "io"]
    ELSE [z |-> [w.z EXCEPT !.fileHeaders[i].offsetLocalHeader = Len(w.out),
                           !.fileHeaders[i].extraLengthLocal = 0],
          out |-> w.out \o LocalHeaderBytes(fh, i, fault)
                        \o Window(newData, np, Len(newData)),
          np |-> np + Len(Window(newData, np, Len(newData))),
          err |-> OK]

\* The first loop of writeArchive, from the 1-based entry i on.  w carries the
\* File z, the bytes of outfile out, the read position np of newData and err.
\* hasNew: newFh != nil, and the last header is the new one.
RECURSIVE WriteLocals(_, _, _, _, _)
WriteLocals(w, i, hasNew, newData, fault) ==
    IF i > Len(w.z.fileHeaders) \/ w.err # OK THEN w
    ELSE IF hasNew /\ i = Len(w.z.fileHeaders)
         THEN WriteLocals(WriteNew(w, i, w.z.fileHeaders[i], newData,
                                   IF fault = <<"new_seek", i, 0>> THEN w.np ELSE 0, fault),
                          i + 1, hasNew, newData, fault)
    ELSE IF w.z.file.st = "nil" THEN [w EXCEPT !.err = "panic"]
    ELSE WriteLocals(WriteOld(w, i, w.z.fileHeaders[i],
                              SeekData(w.z.file, w.z.fileHeaders[i], i, fault),
                              Window(SeekData(w.z.file, w.z.fileHeaders[i], i, fault).data,
                                     SeekData(w.z.file, w.z.fileHeaders[i], i, fault).pos,
                                     w.z.fileHeaders[i].compressedSize),
                              fault),
                     i + 1, hasNew, newData, fault)

\* The second loop of writeArchive: the central directory records
RECURSIVE WriteCentrals(_, _, _)
WriteCentrals(w, i, fault) ==
    IF i > Len(w.z.fileHeaders) \/ w.err # OK THEN w
    ELSE IF fault = <<"cd_write", i, 0>>
         THEN [w EXCEPT !.out = w.out \o WriteAll(CentralHeaderWrites(w.z.fileHeaders[i]), 1),
                        !.err = "io"]
    ELSE WriteCentrals(
             [w EXCEPT !.out = w.out \o WriteAll(CentralHeaderWrites(w.z.fileHeaders[i]), 0),
                       !.z.fileHeaders[i].extraLengthCentral = 0],
             i + 1, fault)

\* the end of writeArchive: the size of the central directory and the
\* end-of-central-directory record; w is the result of the second loop
WriteEnd(w, fault) ==
    IF w.err # OK THEN w
    ELSE IF fault = <<"size_seek", 0, 0>> THEN [w EXCEPT !.err = "io"]
    ELSE [w EXCEPT
            !.z.centralDirSize = Len(w.out) - w.z.centralDirOffset,
            !.out = w.out \o WriteAll(
                        EndRecordWrites([w.z EXCEPT !.centralDirSize =
                                                       Len(w.out) - w.z.centralDirOffset]),
                        IF fault = <<"eocd_write", 0, 0>> THEN 1 ELSE 0),
            !.err = IF fault = <<"eocd_write", 0, 0>> THEN "io" ELSE OK]

\* writeArchive from the central directory on; w is the result of the first loop
WriteDirectory(w, fault) ==
    IF w.err # OK THEN w
    ELSE IF fault = <<"cd_seek", 0, 0>> THEN [w EXCEPT !.err = "io"]
    ELSE WriteEnd(WriteCentrals([w EXCEPT !.z.centralDirOffset = Len(w.out)], 1, fault), fault)

\* writeArchive(outfile, newFh, newData) on the File z with outfile empty:
\* the File as the call leaves it, the bytes of outfile, and err
writeArchive(z, hasNew, newFh, newData, fault) ==
    IF fault = <<"wa_seek0", 0, 0>>
    THEN [z |-> z, out |-> <<>>, np |-> Len(newData), err |-> "io"]
    ELSE WriteDirectory(
             WriteLocals([z |-> IF hasNew
                                THEN [z EXCEPT !.fileHeaders = Append(z.fileHeaders, newFh)]
                                ELSE z,
                          out |-> <<>>,
                          \* getCrc has read newData to its end
                          np |-> Len(newData),
                          err |-> OK],
                         1, hasNew, newData, fault),
             fault)

----------------------------------------------------------------------------
(* DOS date and time *)

RECURSIVE Or16(_, _, _)
Or16(a, b, w) ==
    IF w = 0 THEN 0
    ELSE (IF a % 2 = 1 \/ b % 2 = 1 THEN 1 ELSE 0) + 2 * Or16(a \div 2, b \div 2, w - 1)

\* x << n on a uint16
Shl16(x, n) == (x * 2^n) % 65536

\* timeToDosDateTime: <<dosDate, dosTime>> of a time t
timeToDosDateTime(t) ==
    LET year == (t.year - 1980) % 65536
        dosDate == Or16(Or16(Shl16(year, 9), Shl16(t.month, 5), 16), t.day, 16)
        dosTime == Or16(Or16(Shl16(t.hour, 11), Shl16(t.minute, 5), 16), t.second, 16)
    IN  <<dosDate, dosTime>>

\* dosToTime: the fields handed to time.Date
dosToTime(dosDate, dosTime) ==
    [year |-> ((dosDate \div 512) % 128) + 1980,
     month |-> (dosDate \div 32) % 16,
     day |-> dosDate % 32,
     hour |-> (dosTime \div 2048) % 32,
     minute |-> (dosTime \div 32) % 64,
     second |-> dosTime % 32]

\* the modification time info.ModTime() reports for every source file
SourceModTime ==
    [year |-> 2024, month |-> 11, day |-> 30, hour |-> 9, minute |-> 17, second |-> 40]

\* dosDate, dosTime := timeToDosDateTime(modTime) in AddFile
SourceDosDateTime == timeToDosDateTime(SourceModTime)

----------------------------------------------------------------------------
(* The file system: fs maps the name of every existing file to its bytes *)

Exists(f, name) == name \in DOMAIN f

\* fs.Create, or a rename onto name: the file name now holds bytes
Put(f, name, bytes) == [n \in DOMAIN f \cup {name} |-> IF n = name THEN bytes ELSE f[n]]

\* fs.Remove
Remove(f, name) == [n \in DOMAIN f \ {name} |-> f[n]]

\* fs.Rename(from, to), replacing to
Rename(f, from, to) == Remove(Put(f, to, f[from]), from)

\* getCrc(file)
getCrc(data) == ChecksumIEEE(data)

\* checkCrc(crc, file)
checkCrc(crc, data) == crc = getCrc(data)

----------------------------------------------------------------------------
(* AddFile and RemoveFile.  Each operator gives the outcome of one call on *)
(* the File z and the file system f: err, and z and f as the call leaves   *)
(* them.  err is OK, "panic" (a nil handle was used) or the error returned. *)

Outcome(err, at, z, f) == [err |-> err, at |-> at, z |-> z, f |-> f]

\* the clean-up of AddFile and RemoveFile once writeArchive has returned w
\* without error; guardNil: the "if zf.file != nil" of AddFile
Commit(w, f, guardNil, fault) ==
    LET tmp == tempName(ArchiveName)
        written == Put(f, tmp, w.out)
        h == w.z.file
        closed == [w.z EXCEPT !.file = ClosedHandle]
        afterClose == IF h.st = "nil" THEN w.z ELSE closed
    IN  IF h.st = "nil" /\ ~guardNil THEN Outcome("panic", "close_orig", w.z, written)
        ELSE IF h.st # "nil" /\ (h.st = "closed" \/ fault = <<"close_orig", 0, 0>>)
             \* closeAndDeleteTempFile
             THEN Outcome("io", "close_orig", closed, Remove(written, tmp))
        \* closeAndRenameTempFile
        ELSE IF fault = <<"close_tmp", 0, 0>> THEN Outcome("io", "close_tmp", afterClose, written)
        ELSE IF fault = <<"rename", 0, 0>> THEN Outcome("io", "rename", afterClose, written)
        ELSE LET renamed == Rename(written, tmp, ArchiveName)
             IN  IF fault = <<"reopen", 0, 0>>
                 THEN Outcome("io", "reopen", [w.z EXCEPT !.file = NilHandle], renamed)
                 ELSE Outcome(OK, "done", [w.z EXCEPT !.file = OpenHandle(w.out)], renamed)

\* AddFile and RemoveFile once writeArchive has returned w
Written(w, f, guardNil, fault) ==
    IF w.err = "panic" THEN Outcome("panic", "write", w.z, Put(f, tempName(ArchiveName), w.out))
    \* closeAndDeleteTempFile
    ELSE IF w.err # OK
         THEN Outcome(w.err, "write", w.z,
                      Remove(Put(f, tempName(ArchiveName), w.out), tempName(ArchiveName)))
    ELSE Commit(w, f, guardNil, fault)

\* the part of AddFile and RemoveFile from fs.Create(outfileTempName) on
Rewrite(z, f, hasNew, newFh, newData, guardNil, fault) ==
    IF fault = <<"create", 0, 0>> THEN Outcome("io", "create", z, f)
    ELSE Written(writeArchive(IF hasNew
                              THEN [z EXCEPT !.numEntries = (z.numEntries + 1) % 65536]
                              ELSE z,
                              hasNew, newFh, newData, fault),
                 f, guardNil, fault)

\* the removal loop shared by AddFile and RemoveFile; i is the 1-based index
\* of the first header with the name, 0 if there is none
UnlistAt(z, i) ==
    IF i = 0 THEN z
    ELSE [z EXCEPT !.numEntries = (z.numEntries + 65535) % 65536,
                   !.fileHeaders = RemoveAt(z.fileHeaders, i)]

Unlist(z, name) == UnlistAt(z, IndexOfName(z.fileHeaders, name))

\* newFh, the header AddFile makes for the source file name with bytes data
NewHeader(data, name, method) ==
    [versionMadeBy |-> VERSION_MADE_BY,
     versionNeeded |-> VERSION_NEEDED,
     flags |-> FLAGS,
     compressionMethod |-> method,
     dosTime |-> SourceDosDateTime[2],
     dosDate |-> SourceDosDateTime[1],
     crc |-> getCrc(data),
     compressedSize |-> Len(data),
     uncompressedSize |-> Len(data),
     nameLength |-> Len(name) % 65536,
     extraLengthLocal |-> 0,
     extraLengthCentral |-> 0,
     commentLength |-> 0,
     internalAttr |-> INTERNAL_ATTR,
     externalAttr |-> EXTERNAL_ATTR,
     offsetLocalHeader |-> 0,
     fileName |-> name,
     comment |-> <<>>]

AddFileOutcome(z, f, name, method, fault) ==
    IF method = COMPRESS_DEFLATED THEN Outcome("deflate", "method", z, f)
    ELSE IF ~Exists(f, name) \/ fault = <<"open_src", 0, 0>>
         THEN Outcome("io", "open_src", z, f)
    ELSE IF fault = <<"stat", 0, 0>> \/ fault = <<"crc", 0, 0>>
         THEN Outcome("io", "stat", z, f)
    ELSE Rewrite(Unlist(z, name), f, TRUE, NewHeader(f[name], name, method), f[name], TRUE,
                 fault)

\* RemoveFile without the return for a name that is not found
RemoveFileRewriting(z, f, name, fault) ==
    Rewrite(Unlist(z, name), f, FALSE, ZeroHeader, <<>>, FALSE, fault)

\* RemoveFile(name)
RemoveFileOutcome(z, f, name, fault) ==
    IF IndexOfName(z.fileHeaders, name) = 0 THEN Outcome(OK, "absent", z, f)
    ELSE Rewrite(Unlist(z, name), f, FALSE, ZeroHeader, <<>>, FALSE, fault)

----------------------------------------------------------------------------
(* ExtractFile and ExtractAll *)

\* an extraction that renames the temporary file whatever its checksum
ExtractDataUnchecked(z, f, fh, i, tmp, start, bytes, fault) ==
    Outcome(OK, "done", [z EXCEPT !.file.pos = start + Len(bytes)],
            Rename(Put(f, tmp, bytes), tmp, fh.fileName))

\* extractSingleFile from fs.Create(tempFileName) on: start is the offset of
\* the data, bytes what io.CopyN gets from there, tmp the temporary name
ExtractData(z, f, fh, i, tmp, start, bytes, fault) ==
    IF fault = <<"create", i, 0>> THEN Outcome("io", "create", [z EXCEPT !.file.pos = start], f)
    \* closeAndDeleteTempFile
    ELSE IF fault = <<"copy", i, 0>>
         THEN Outcome("io", "copy", [z EXCEPT !.file.pos = start],
                      Remove(Put(f, tmp, <<>>), tmp))
    ELSE IF fault = <<"crc", i, 0>>
         THEN Outcome("io", "crc", [z EXCEPT !.file.pos = start + Len(bytes)],
                      Remove(Put(f, tmp, bytes), tmp))
    ELSE IF ~checkCrc(fh.crc, bytes)
         THEN Outcome("crc", "crc", [z EXCEPT !.file.pos = start + Len(bytes)],
                      Remove(Put(f, tmp, bytes), tmp))
    \* closeAndRenameTempFile
    ELSE IF fault = <<"close_tmp", i, 0>>
         THEN Outcome("io", "close_tmp", [z EXCEPT !.file.pos = start + Len(bytes)],
                      Put(f, tmp, bytes))
    ELSE IF fault = <<"rename", i, 0>>
         THEN Outcome("io", "rename", [z EXCEPT !.file.pos = start + Len(bytes)],
                      Put(f, tmp, bytes))
    ELSE Outcome(OK, "done", [z EXCEPT !.file.pos = start + Len(bytes)],
                 Rename(Put(f, tmp, bytes), tmp, fh.fileName))

\* extractSingleFile once extraFieldLength is read: start is
\* offsetLocalHeader + 30 + offsetFromCurrent
ExtractAt(z, f, fh, i, start, fault) ==
    ExtractData(z, f, fh, i, tempName(fh.fileName), start,
                Window(z.file.data, start, fh.compressedSize), fault)

\* extractSingleFile(fh) for the header fh at the 1-based index i
extractSingleFile(z, f, fh, i, fault) ==
    IF fh.compressionMethod = COMPRESS_DEFLATED THEN Outcome("deflate", "method", z, f)
    ELSE IF z.file.st = "nil" THEN Outcome("panic", "seek", z, f)
    ELSE IF z.file.st = "closed" \/ fault = <<"seek", i, 0>> THEN Outcome("io", "seek", z, f)
    ELSE IF ~CanRead(z.file.data, fh.offsetLocalHeader + 28, 2) \/ fault = <<"read", i, 0>>
         THEN Outcome("io", "read", [z EXCEPT !.file.pos = fh.offsetLocalHeader + 28], f)
    ELSE ExtractAt(z, f, fh, i,
                   \* offsetFromCurrent := int64(fh.nameLength + extraFieldLength)
                   fh.offsetLocalHeader + 30
                     + ((fh.nameLength + Uint16(z.file.data, fh.offsetLocalHeader + 28)) % 65536),
                   fault)

\* the header ExtractFile looks up, then extractSingleFile
ExtractFound(z, f, i, fault) ==
    IF i = 0 THEN Outcome("notfound", "absent", z, f)
    ELSE extractSingleFile(z, f, z.fileHeaders[i], i, fault)

ExtractFileOutcome(z, f, name, fault) ==
    ExtractFound(z, f, IndexOfName(z.fileHeaders, name), fault)

\* the loop of ExtractAll from the 1-based index i on; o is the outcome so far
RECURSIVE ExtractFrom(_, _, _)
ExtractFrom(o, i, fault) ==
    IF o.err # OK \/ i > Len(o.z.fileHeaders) THEN o
    ELSE ExtractFrom(extractSingleFile(o.z, o.f, o.z.fileHeaders[i], i, fault), i + 1, fault)

ExtractAllOutcome(z, f, fault) == ExtractFrom(Outcome(OK, "done", z, f), 1, fault)

----------------------------------------------------------------------------
(* The archives the library is given: written by an independent writer     *)
(* with the layout of the zip format, as the tests build theirs.           *)

\* n filler bytes of an extra field
RECURSIVE Filler(_)
Filler(n) == IF n = 0 THEN <<>> ELSE <<238>> \o Filler(n - 1)

\* the CRC an entry records: the true one, or a wrong one
RecordedCrc(e) ==
    LET crc == ChecksumIEEE(e.data)
    IN  IF e.crcOk THEN crc ELSE [crc EXCEPT ![1] = (@ + 1) % 256]

\* local file header, extra field and data of the entry e
TestLocal(e) ==
    SigLocal \o LE16(20) \o LE16(0) \o LE16(e.method) \o LE16(19076) \o LE16(22910)
    \o RecordedCrc(e) \o LE32(Len(e.data)) \o LE32(Len(e.data))
    \o LE16(Len(e.name)) \o LE16(e.xl) \o e.name \o Filler(e.xl) \o e.data

\* central directory record of the entry e whose local header is at offset
TestCentral(e, offset) ==
    SigCentral \o LE16(20) \o LE16(20) \o LE16(0) \o LE16(e.method) \o LE16(19076)
    \o LE16(22910) \o RecordedCrc(e) \o LE32(Len(e.data)) \o LE32(Len(e.data))
    \o LE16(Len(e.name)) \o LE16(e.xc) \o LE16(Len(e.comment)) \o LE16(0) \o LE16(1)
    \o LE32(32) \o LE32(offset) \o e.name \o Filler(e.xc) \o e.comment

RECURSIVE TestLocals(_, _)
TestLocals(es, i) == IF i > Len(es) THEN <<>> ELSE TestLocal(es[i]) \o TestLocals(es, i + 1)

RECURSIVE TestCentrals(_, _)
TestCentrals(es, i) ==
    IF i > Len(es) THEN <<>>
    ELSE TestCentral(es[i], Len(TestLocals(SubSeq(es, 1, i - 1), 1))) \o TestCentrals(es, i + 1)

\* the archive of the entries es with the archive comment zipComment
makeTestZipStore(es, zipComment) ==
    LET locals == TestLocals(es, 1)
        centrals == TestCentrals(es, 1)
    IN  locals \o centrals \o SigEOCD \o LE16(0) \o LE16(0) \o LE16(Len(es)) \o LE16(Len(es))
        \o LE32(Len(centrals)) \o LE32(Len(locals)) \o LE16(Len(zipComment)) \o zipComment

TestEntry(name, data, method, xl, xc, comment, crcOk) ==
    [name |-> name, data |-> data, method |-> method, xl |-> xl, xc |-> xc,
     comment |-> comment, crcOk |-> crcOk]

\* three stored entries whose local and central extra lengths differ
StoredArchive ==
    makeTestZipStore(<< TestEntry(NameA, <<1>>, 0, 1, 0, <<>>, TRUE),
                        TestEntry(NameB, <<2, 3>>, 0, 0, 2, <<33>>, TRUE),
                        TestEntry(NameC, <<4>>, 0, 0, 0, <<>>, TRUE) >>, <<35>>)

\* a deflated entry, an entry of another method, an entry with a wrong CRC
MixedArchive ==
    makeTestZipStore(<< TestEntry(NameA, <<9>>, 8, 0, 0, <<>>, TRUE),
                        TestEntry(NameC, <<4>>, 1, 0, 0, <<>>, TRUE),
                        TestEntry(NameB, <<2>>, 0, 0, 0, <<>>, FALSE) >>, <<>>)

\* the source files "a" and "b"
SourceFiles == (NameA :> <<5, 6>>) @@ (NameB :> <<7>>)

\* files that happen to carry the temp names of the archive and of "a"
StrayFiles == (tempName(ArchiveName) :> <<42>>) @@ (tempName(NameA) :> <<43>>)

InitialFileSystems ==
    { SourceFiles,
      SourceFiles @@ (ArchiveName :> StoredArchive),
      SourceFiles @@ (ArchiveName :> MixedArchive),
      SourceFiles @@ StrayFiles @@ (ArchiveName :> StoredArchive) }

----------------------------------------------------------------------------
(* The I/O calls that can be made to fail *)

Names == {NameA, NameB, NameC}

Methods == {COMPRESS_STORED, 1, COMPRESS_DEFLATED}

\* the binary.Write calls of a local file header that are made to fail: the
\* signature, the CRC, the name length and the file name
LocalFaultFields == {1, 7, 10, 12}

Steps(tags) == {<<t, 0, 0>> : t \in tags}

EntrySteps(tags, n) == {<<t, i, 0>> : t \in tags, i \in 1..n}

\* the I/O calls of a rewrite of n entries, the last one new if hasNew
RewriteFaults(n, hasNew) ==
    {NoFault}
    \cup Steps({"create", "wa_seek0", "cd_seek", "size_seek", "eocd_write",
                "close_orig", "close_tmp", "rename", "reopen"})
    \cup EntrySteps({"src_seek"}, IF hasNew THEN n - 1 ELSE n)
    \cup (IF hasNew THEN {<<"new_seek", n, 0>>} ELSE {})
    \cup EntrySteps({"out_seek", "copy", "cd_write"}, n)
    \cup {<<"lh_write", i, k>> : i \in 1..n, k \in LocalFaultFields}

\* the I/O calls of AddFile(name, method) on the File z
AddFaults(z, f, name, method) ==
    IF method # COMPRESS_STORED \/ ~Exists(f, name) THEN {NoFault}
    ELSE RewriteFaults(Len(Unlist(z, name).fileHeaders) + 1, TRUE)
         \cup Steps({"open_src", "stat", "crc"})

\* the I/O calls of RemoveFile(name) on the File z
RemoveFaults(z, name) ==
    IF IndexOfName(z.fileHeaders, name) = 0 THEN {NoFault}
    ELSE RewriteFaults(Len(z.fileHeaders) - 1, FALSE)

\* the I/O calls of the extraction of the entries from..to
ExtractFaults(from, to) ==
    {NoFault}
    \cup {<<t, i, 0>> : t \in {"seek", "read", "create", "copy", "crc", "close_tmp", "rename"},
                        i \in from..to}

----------------------------------------------------------------------------
(* State and actions *)

Call(op, name, method, fault, o) ==
    [op |-> op, name |-> name, method |-> method, fault |-> fault, err |-> o.err,
     at |-> o.at, fs0 |-> fs, zf0 |-> zf]

Init ==
    /\ fs \in InitialFileSystems
    /\ zf = ZeroFile
    /\ live = "none"
    /\ last = [op |-> "init", name |-> <<>>, method |-> 0, fault |-> NoFault, err |-> OK,
               at |-> "done", fs0 |-> fs, zf0 |-> ZeroFile]
    /\ nops = 0

\* OpenWithFs once readDirectory has returned rd
Opened(f, rd) == Outcome(rd.err, IF rd.err = OK THEN "done" ELSE "read", rd.zf, f)

\* OpenWithFs(ArchiveName, fs)
OpenWithFsOutcome(f, fault) ==
    IF ~Exists(f, ArchiveName) \/ fault = <<"open", 0, 0>>
    THEN Outcome("io", "open", ZeroFile, f)
    ELSE Opened(f, readDirectory(f[ArchiveName]))

\* the caller of OpenWithFs keeps the File only if err is nil
KeepOpened(fault, o) ==
    /\ zf' = o.z
    /\ live' = IF o.err = OK THEN "open"
               ELSE IF o.err = "panic" THEN "crashed" ELSE "none"
    /\ last' = Call("OpenWithFs", ArchiveName, 0, fault, o)
    /\ nops' = nops + 1
    /\ UNCHANGED fs

OpenWithFs ==
    /\ live = "none"
    /\ nops = 0
    /\ \E fault \in {NoFault, <<"open", 0, 0>>} : KeepOpened(fault, OpenWithFsOutcome(fs, fault))

\* the File with which CreateWithFs starts
EmptyFile == [ZeroFile EXCEPT !.centralDirSize = CENTRAL_DIR_MIN_SIZE]

\* the caller of CreateWithFs keeps the File only if err is nil
KeepCreated(name, method, fault, o) ==
    /\ fs' = o.f
    /\ zf' = IF o.err = OK THEN o.z ELSE ZeroFile
    /\ live' = IF o.err = OK THEN "open"
               ELSE IF o.err = "panic" THEN "crashed" ELSE "none"
    /\ last' = Call("CreateWithFs", name, method, fault, o)
    /\ nops' = nops + 1

\* CreateWithFs(fs, ArchiveName, name, method)
CreateWithFs ==
    /\ live = "none"
    /\ nops = 0
    /\ \E name \in Names, method \in Methods :
       \E fault \in AddFaults(EmptyFile, fs, name, method) :
         KeepCreated(name, method, fault, AddFileOutcome(EmptyFile, fs, name, method, fault))

Finish(op, name, method, fault, o) ==
    /\ fs' = o.f
    /\ zf' = o.z
    /\ live' = IF o.err = "panic" THEN "crashed" ELSE "open"
    /\ last' = Call(op, name, method, fault, o)
    /\ nops' = nops + 1

AddFile ==
    /\ live = "open"
    /\ nops < MaxOps
    /\ \E name \in Names, method \in Methods :
       \E fault \in AddFaults(zf, fs, name, method) :
         Finish("AddFile", name, method, fault, AddFileOutcome(zf, fs, name, method, fault))

RemoveFile ==
    /\ live = "open"
    /\ nops < MaxOps
    /\ \E name \in Names :
       \E fault \in RemoveFaults(zf, name) :
         Finish("RemoveFile", name, 0, fault, RemoveFileOutcome(zf, fs, name, fault))

ExtractFile ==
    /\ live = "open"
    /\ nops < MaxOps
    /\ \E name \in Names :
       \E fault \in ExtractFaults(IndexOfName(zf.fileHeaders, name),
                                  IndexOfName(zf.fileHeaders, name)) :
         Finish("ExtractFile", name, 0, fault, ExtractFileOutcome(zf, fs, name, fault))

ExtractAll ==
    /\ live = "open"
    /\ nops < MaxOps
    /\ \E fault \in ExtractFaults(1, Len(zf.fileHeaders)) :
         Finish("ExtractAll", <<>>, 0, fault, ExtractAllOutcome(zf, fs, fault))

Next ==
    \/ OpenWithFs
    \/ CreateWithFs
    \/ AddFile
    \/ RemoveFile
    \/ ExtractFile
    \/ ExtractAll

Spec == Init /\ [][Next]_vars

----------------------------------------------------------------------------
(* The reader on its own: OpenWithFs, then extraction, on archives that the *)
(* independent writer made and on truncated or damaged copies of them.      *)

\* two stored entries: "a" with a local extra field, "c" with a central extra
\* field and a comment; the archive comment is "#"
TwoEntries ==
    << TestEntry(NameA, <<1>>, 0, 1, 0, <<>>, TRUE),
       TestEntry(NameC, <<4>>, 0, 0, 1, <<33>>, TRUE) >>

TwoArchive == makeTestZipStore(TwoEntries, <<35>>)

\* no entry: the end-of-central-directory record alone, at offset 0
EmptyArchive == makeTestZipStore(<< >>, << >>)

\* the lengths of the archive comments tried
CommentLengths == {0, 1, 2, 21, 22, 23}

\* a comment without the byte "P"
PlainComment(n) == [i \in 1..n |-> 35]

\* 22 bytes that read as an end-of-central-directory record of n entries with
\* an empty comment
FakeRecord(n, size, offset) ==
    SigEOCD \o LE16(0) \o LE16(0) \o LE16(n) \o LE16(n) \o LE32(size) \o LE32(offset) \o LE16(0)

\* a comment of a record that claims one entry in a directory of 10 bytes
ShortDirectoryComment == FakeRecord(1, 10, 0) \o <<35, 35>>

\* a comment of a record whose directory ends before the name of its entry
CutNameComment == FakeRecord(1, 46, 33) \o <<35, 35>>

\* comments that hold the four signature bytes of an end-of-central-directory
\* record: followed by 18 or 17 zero bytes, by the fields of the record of
\* the archive itself, or by fields that do not fit its directory
SignatureComments ==
    { FakeRecord(0, 0, 0),
      SigEOCD \o [i \in 1..17 |-> 0],
      FakeRecord(1, 47, 33),
      ShortDirectoryComment,
      CutNameComment }

Comments == {PlainComment(n) : n \in CommentLengths} \cup SignatureComments

\* the archive of the one entry "a" with the archive comment c
OneEntry == << TestEntry(NameA, <<1>>, 0, 1, 0, <<>>, TRUE) >>

CommentArchive(c) == makeTestZipStore(OneEntry, c)

\* every prefix of the stream a
Prefixes(a) == {SubSeq(a, 1, n) : n \in 0..Len(a)}

\* a with one byte set to 0 or raised by one
Corruptions(a) ==
    UNION {{[a EXCEPT ![i] = 0], [a EXCEPT ![i] = (a[i] + 1) % 256]} : i \in 1..Len(a)} \ {a}

\* an archive whose entry "a" holds the byte of its name as data, and whose
\* local header claims an extra field of 65535 bytes
LongExtraArchive ==
    [makeTestZipStore(<< TestEntry(NameA, NameA, 0, 0, 0, <<>>, TRUE) >>, << >>)
        EXCEPT ![29] = 255, ![30] = 255]

ReaderInputs ==
    {TwoArchive, EmptyArchive, MixedArchive, LongExtraArchive}
        \cup {CommentArchive(c) : c \in Comments}
        \cup Prefixes(TwoArchive)
        \cup Prefixes(CommentArchive(ShortDirectoryComment))
        \cup Prefixes(CommentArchive(CutNameComment))
        \cup Corruptions(TwoArchive)

ReadInit ==
    /\ fs \in {SourceFiles @@ (tempName(NameA) :> <<43>>) @@ (ArchiveName :> data) :
                  data \in ReaderInputs}
    /\ zf = ZeroFile
    /\ live = "none"
    /\ last = [op |-> "init", name |-> <<>>, method |-> 0, fault |-> NoFault, err |-> OK,
               at |-> "done", fs0 |-> fs, zf0 |-> ZeroFile]
    /\ nops = 0

ReadNext ==
    \/ OpenWithFs
    \/ ExtractFile

ReadSpec == ReadInit /\ [][ReadNext]_vars

----------------------------------------------------------------------------
(* Time stamps: the modification time of a source file is converted to the *)
(* MS-DOS date and time of its header, and read back with getDateTime      *)

\* the times info.ModTime() may report
Times ==
    [year : {1980, 2024, 2107}, month : {1, 12}, day : {1, 31}, hour : {0, 23},
     minute : {0, 58, 59}, second : {0, 1, 2, 31, 32, 40, 59}]

DosInit ==
    /\ fs = SourceFiles
    /\ zf = ZeroFile
    /\ live = "none"
    /\ \E t \in Times : last = [op |-> "ModTime", time |-> t, back |-> t]
    /\ nops = 0

\* fh.dosDate, fh.dosTime = timeToDosDateTime(modTime) on a new header
StampHeader ==
    /\ last.op = "ModTime"
    /\ zf' = [zf EXCEPT !.fileHeaders =
                 << [ZeroHeader EXCEPT !.dosDate = timeToDosDateTime(last.time)[1],
                                       !.dosTime = timeToDosDateTime(last.time)[2]] >>]
    /\ last' = [last EXCEPT !.op = "timeToDosDateTime"]
    /\ nops' = nops + 1
    /\ UNCHANGED <<fs, live>>

\* fh.getDateTime() of that header
getDateTime ==
    /\ last.op = "timeToDosDateTime"
    /\ last' = [last EXCEPT !.op = "getDateTime",
                            !.back = dosToTime(zf.fileHeaders[1].dosDate,
                                               zf.fileHeaders[1].dosTime)]
    /\ nops' = nops + 1
    /\ UNCHANGED <<fs, zf, live>>

DosNext ==
    \/ StampHeader
    \/ getDateTime

DosSpec == DosInit /\ [][DosNext]_vars

----------------------------------------------------------------------------
(* The commit of AddFile and RemoveFile step by step: one action for the    *)
(* part of the call up to the return of writeArchive, then one action per   *)
(* clean-up call.  live is the position inside the call: "written",         *)
(* "closed_orig", "closed_tmp", "renamed", and "open" between calls.        *)

MaxCommits == 2

CommitPositions == {"written", "closed_orig", "closed_tmp", "renamed"}

CommitInit ==
    /\ fs \in { SourceFiles @@ (ArchiveName :> StoredArchive),
                SourceFiles @@ StrayFiles @@ (ArchiveName :> StoredArchive) }
    /\ zf = OpenWithFsOutcome(fs, NoFault).z
    /\ live = "open"
    /\ last = [op |-> "OpenWithFs", name |-> ArchiveName, method |-> 0, fault |-> NoFault,
               err |-> OK, at |-> "done", fs0 |-> fs, zf0 |-> ZeroFile]
    /\ nops = 0

\* fs.Create(outfileTempName) and writeArchive, which has returned w for the
\* File z; the call returns here if either failed
Begin(op, name, method, fault, z, w, guardNil) ==
    IF fault = <<"create", 0, 0>>
    THEN Finish(op, name, method, fault, Outcome("io", "create", z, fs))
    ELSE IF w.err # OK
    THEN Finish(op, name, method, fault, Written(w, fs, guardNil, fault))
    ELSE /\ fs' = Put(fs, tempName(ArchiveName), w.out)
         /\ zf' = w.z
         /\ live' = "written"
         /\ last' = [op |-> op, name |-> name, method |-> method, fault |-> fault,
                     err |-> OK, at |-> "written", fs0 |-> fs, zf0 |-> zf, out |-> w.out]
         /\ nops' = nops + 1

\* AddFile up to the return of writeArchive
AddFileWrite ==
    /\ live = "open"
    /\ nops < MaxCommits
    /\ \E name \in Names, method \in Methods :
       \E fault \in AddFaults(zf, fs, name, method) :
         IF \/ method = COMPRESS_DEFLATED
            \/ ~Exists(fs, name)
            \/ fault \in Steps({"open_src", "stat", "crc"})
         THEN Finish("AddFile", name, method, fault,
                     AddFileOutcome(zf, fs, name, method, fault))
         ELSE Begin("AddFile", name, method, fault, Unlist(zf, name),
                    writeArchive([Unlist(zf, name) EXCEPT
                                     !.numEntries = (Unlist(zf, name).numEntries + 1) % 65536],
                                 TRUE, NewHeader(fs[name], name, method), fs[name], fault),
                    TRUE)

\* RemoveFile up to the return of writeArchive
RemoveFileWrite ==
    /\ live = "open"
    /\ nops < MaxCommits
    /\ \E name \in Names :
       \E fault \in RemoveFaults(zf, name) :
         IF IndexOfName(zf.fileHeaders, name) = 0
         THEN Finish("RemoveFile", name, 0, fault, RemoveFileOutcome(zf, fs, name, fault))
         ELSE Begin("RemoveFile", name, 0, fault, Unlist(zf, name),
                    writeArchive(Unlist(zf, name), FALSE, ZeroHeader, <<>>, fault), FALSE)

\* the call returns err from the step at
Return(err, at) ==
    /\ live' = IF err = "panic" THEN "crashed" ELSE "open"
    /\ last' = [last EXCEPT !.err = err, !.at = at]

\* zf.file.Close(), guarded by "if zf.file != nil" in AddFile only; on an
\* error closeAndDeleteTempFile
CloseOriginal ==
    /\ live = "written"
    /\ IF zf.file.st = "nil"
       THEN IF last.op = "AddFile"
            THEN /\ live' = "closed_orig"
                 /\ UNCHANGED <<fs, zf, last>>
            ELSE /\ Return("panic", "close_orig")
                 /\ UNCHANGED <<fs, zf>>
       ELSE /\ zf' = [zf EXCEPT !.file = ClosedHandle]
            /\ IF zf.file.st = "closed" \/ last.fault = <<"close_orig", 0, 0>>
               THEN /\ fs' = Remove(fs, tempName(ArchiveName))
                    /\ Return("io", "close_orig")
               ELSE /\ live' = "closed_orig"
                    /\ UNCHANGED <<fs, last>>
    /\ UNCHANGED nops

\* outfile.Close() of closeAndRenameTempFile
CloseTemp ==
    /\ live = "closed_orig"
    /\ IF last.fault = <<"close_tmp", 0, 0>>
       THEN Return("io", "close_tmp")
       ELSE /\ live' = "closed_tmp"
            /\ UNCHANGED last
    /\ UNCHANGED <<fs, zf, nops>>

\* fs.Rename(outfileTempName, zf.Name) of closeAndRenameTempFile
RenameTemp ==
    /\ live = "closed_tmp"
    /\ IF last.fault = <<"rename", 0, 0>>
       THEN /\ Return("io", "rename")
            /\ UNCHANGED fs
       ELSE /\ fs' = Rename(fs, tempName(ArchiveName), ArchiveName)
            /\ live' = "renamed"
            /\ UNCHANGED last
    /\ UNCHANGED <<zf, nops>>

\* zf.file, err = zf.fs.Open(zf.Name)
Reopen ==
    /\ live = "renamed"
    /\ IF last.fault = <<"reopen", 0, 0>>
       THEN /\ zf' = [zf EXCEPT !.file = NilHandle]
            /\ Return("io", "reopen")
       ELSE /\ zf' = [zf EXCEPT !.file = OpenHandle(fs[ArchiveName])]
            /\ Return(OK, "done")
    /\ UNCHANGED <<fs, nops>>

CommitNext ==
    \/ AddFileWrite
    \/ RemoveFileWrite
    \/ CloseOriginal
    \/ CloseTemp
    \/ RenameTemp
    \/ Reopen

CommitSpec == CommitInit /\ [][CommitNext]_vars

----------------------------------------------------------------------------
(* Properties.  last records the latest call: the operation, its arguments, *)
(* the I/O call made to fail, the result, and the File and the file system  *)
(* from before the call.                                                    *)

Mutated == last.op \in {"AddFile", "RemoveFile"}

Succeeded == last.err = OK

\* the call returned an error
Failed == last.err \notin {OK, "panic"}

\* the File y carries the directory of the File z
SameDirectory(z, y) ==
    /\ y.numEntries = z.numEntries
    /\ y.centralDirOffset = z.centralDirOffset
    /\ y.centralDirSize = z.centralDirSize
    /\ y.comment = z.comment
    /\ y.fileHeaders = z.fileHeaders

\* rd, the result of a fresh OpenWithFs, is a success with the directory of z
Reopens(z, rd) == rd.err = OK /\ SameDirectory(z, rd.zf)

\* the File z is what OpenWithFs gives on the file system f
Opened0(z, f) ==
    /\ Exists(f, ArchiveName)
    /\ z.file.st = "open"
    /\ z.file.data = f[ArchiveName]
    /\ Reopens(z, readDirectory(f[ArchiveName]))

\* C1: after an AddFile or RemoveFile that returns success, a fresh OpenWithFs
\* on the archive succeeds and gives the numEntries, centralDirOffset,
\* centralDirSize, comment and header sequence the File has in memory.
C1_RoundTrip ==
    (Mutated /\ Succeeded)
        => Exists(fs, ArchiveName) /\ Reopens(zf, readDirectory(fs[ArchiveName]))

\* C2: if AddFile or RemoveFile returns an error, the file at the archive path
\* holds the bytes it held before the call.
C2_ArchiveUntouched ==
    (Mutated /\ Failed)
        => /\ Exists(fs, ArchiveName) = Exists(last.fs0, ArchiveName)
           /\ Exists(fs, ArchiveName) => fs[ArchiveName] = last.fs0[ArchiveName]

\* the call failed after fs.Create(outfileTempName) and before the temporary
\* file replaced the archive
FailedStaging == Mutated /\ Failed /\ last.at \in {"write", "close_orig", "close_tmp", "rename"}

\* C3: when AddFile or RemoveFile fails after the temporary file was created
\* and before it replaced the archive, no file is left at the temporary path.
C3_NoTempLeft == FailedStaging => ~Exists(fs, tempName(ArchiveName))

\* C4: when AddFile or RemoveFile fails after the temporary file was created,
\* the header sequence, numEntries, centralDirOffset and centralDirSize of the
\* File are those from before the call.
C4_StateRestored ==
    (Mutated /\ Failed /\ last.at \in {"write", "close_orig", "close_tmp", "rename", "reopen"})
        => /\ zf.fileHeaders = last.zf0.fileHeaders
           /\ zf.numEntries = last.zf0.numEntries
           /\ zf.centralDirOffset = last.zf0.centralDirOffset
           /\ zf.centralDirSize = last.zf0.centralDirSize

HeaderNames(hs) == [i \in 1..Len(hs) |-> hs[i].fileName]

\* the headers of hs other than the one named name
Kept(hs, name) == RemoveAt(hs, IndexOfName(hs, name))

\* what an extraction with outcome o left at the path name
Payload(o, name) == IF o.err = OK THEN <<TRUE, o.f[name]>> ELSE <<FALSE, <<>>>>

\* whether ExtractFile(name) on the File z succeeds, and the bytes it writes
Extracted(z, f, name) == Payload(ExtractFileOutcome(z, f, name, NoFault), name)

\* the entry name, extractable from the File z0, is extractable from the File
\* z with the same bytes
StillExtracts(z0, f0, z, f, name) ==
    Extracted(z0, f0, name)[1] => Extracted(z, f, name) = Extracted(z0, f0, name)

\* rd, a fresh OpenWithFs on f, holds the entries of z0 without name
RemovedFrom(z0, f0, name, rd, f) ==
    /\ rd.err = OK
    /\ HeaderNames(rd.zf.fileHeaders) = HeaderNames(Kept(z0.fileHeaders, name))
    /\ IndexOfName(rd.zf.fileHeaders, name) = 0
    /\ \A i \in 1..Len(z0.fileHeaders) :
         z0.fileHeaders[i].fileName # name
             => StillExtracts(z0, f0, rd.zf, f, z0.fileHeaders[i].fileName)

\* C5: on an opened archive, a successful RemoveFile(name) of a present name
\* leaves an archive with exactly the other entries in their order, none named
\* name, each one extractable with its data unchanged and its CRC verified.
C5_RemovePresent ==
    (/\ last.op = "RemoveFile"
     /\ Succeeded
     /\ Opened0(last.zf0, last.fs0)
     /\ IndexOfName(last.zf0.fileHeaders, last.name) # 0)
        => /\ Exists(fs, ArchiveName)
           /\ RemovedFrom(last.zf0, last.fs0, last.name, readDirectory(fs[ArchiveName]), fs)

\* C6: RemoveFile(name) for a name that is not in the header sequence returns
\* success and changes neither the File (headers, numEntries, handle) nor any
\* file (the archive keeps its bytes, no temporary file appears); and after
\* any RemoveFile(name) a second RemoveFile(name), whatever I/O call would
\* fail, is that case: it returns success and leaves the state as it is.
C6_RemoveAbsent ==
    /\ (last.op = "RemoveFile" /\ IndexOfName(last.zf0.fileHeaders, last.name) = 0)
           => (Succeeded /\ zf = last.zf0 /\ fs = last.fs0)
    /\ (last.op = "RemoveFile" /\ live = "open")
           => \A fault \in RewriteFaults(Len(zf.fileHeaders), FALSE) :
                  RemoveFileOutcome(zf, fs, last.name, fault) = Outcome(OK, "absent", zf, fs)

\* a second call on an opened archive with entries removes a name that none
\* of them has, and a temporary file left by an earlier call is still there
C6_Witness ==
    /\ last.op = "RemoveFile"
    /\ nops = MaxOps
    /\ Succeeded
    /\ IndexOfName(last.zf0.fileHeaders, last.name) = 0
    /\ Len(last.zf0.fileHeaders) >= 2
    /\ last.zf0.file.st = "open"
    /\ Exists(fs, tempName(ArchiveName))

\* the header fh is the one AddFile makes for a source file with the bytes src
NewEntry(fh, src) ==
    /\ fh.crc = ChecksumIEEE(src)
    /\ fh.compressedSize = Len(src)
    /\ fh.uncompressedSize = Len(src)

\* rd, a fresh OpenWithFs on f, holds the entries of z0 and then name
AddedTo(z0, f0, name, rd, f) ==
    /\ rd.err = OK
    /\ rd.zf.numEntries = Len(z0.fileHeaders) + 1
    /\ HeaderNames(rd.zf.fileHeaders) = Append(HeaderNames(z0.fileHeaders), name)
    /\ NewEntry(rd.zf.fileHeaders[Len(rd.zf.fileHeaders)], f0[name])
    /\ Extracted(rd.zf, f, name) = <<TRUE, f0[name]>>
    /\ \A i \in 1..Len(z0.fileHeaders) :
         StillExtracts(z0, f0, rd.zf, f, z0.fileHeaders[i].fileName)

\* C7: on an opened archive of n entries, none named name, a successful
\* AddFile(name, stored) and a re-opening give n+1 entries: the n, in their
\* order, then name with the CRC-32 and the length of the source file and its
\* bytes as data; the data of the n entries is unchanged.
C7_AddNew ==
    (/\ last.op = "AddFile"
     /\ last.method = COMPRESS_STORED
     /\ Succeeded
     /\ Opened0(last.zf0, last.fs0)
     /\ IndexOfName(last.zf0.fileHeaders, last.name) = 0)
        => /\ Exists(fs, ArchiveName)
           /\ AddedTo(last.zf0, last.fs0, last.name, readDirectory(fs[ArchiveName]), fs)

\* the names of the headers of hs other than name, in order
OtherNames(hs, name) ==
    LET other(h) == h.fileName # name
    IN  HeaderNames(SelectSeq(hs, other))

\* rd, a fresh OpenWithFs on f, holds the entries of z0 with the one named
\* name replaced
ReplacedIn(z0, f0, name, rd, f) ==
    /\ rd.err = OK
    /\ rd.zf.numEntries = z0.numEntries
    /\ Len(rd.zf.fileHeaders) = Len(z0.fileHeaders)
    /\ Cardinality({i \in 1..Len(rd.zf.fileHeaders) : rd.zf.fileHeaders[i].fileName = name}) = 1
    /\ OtherNames(rd.zf.fileHeaders, name) = OtherNames(z0.fileHeaders, name)
    /\ NewEntry(rd.zf.fileHeaders[IndexOfName(rd.zf.fileHeaders, name)], f0[name])
    /\ Extracted(rd.zf, f, name) = <<TRUE, f0[name]>>
    /\ \A i \in 1..Len(z0.fileHeaders) :
         z0.fileHeaders[i].fileName # name
             => StillExtracts(z0, f0, rd.zf, f, z0.fileHeaders[i].fileName)

\* C8: on an opened archive with an entry named name, a successful
\* AddFile(name, stored) replaces it: one entry named name with the data and
\* CRC of the source file, numEntries as before, the other entries with their
\* data and in their order.
C8_AddExisting ==
    (/\ last.op = "AddFile"
     /\ last.method = COMPRESS_STORED
     /\ Succeeded
     /\ Opened0(last.zf0, last.fs0)
     /\ IndexOfName(last.zf0.fileHeaders, last.name) # 0)
        => /\ Exists(fs, ArchiveName)
           /\ ReplacedIn(last.zf0, last.fs0, last.name, readDirectory(fs[ArchiveName]), fs)

\* C9: AddFile(name, method) with a method other than stored returns the
\* unsupported-method error and leaves the File and every file as they were.
C9_AddUnsupported ==
    (last.op = "AddFile" /\ last.method # COMPRESS_STORED)
        => (last.err = "deflate" /\ zf = last.zf0 /\ fs = last.fs0)

\* the header ExtractFile(last.name) looks up in the File from before the call
Target == last.zf0.fileHeaders[IndexOfName(last.zf0.fileHeaders, last.name)]

\* the entries of the File from before the call that are not stored
Unstored ==
    {i \in 1..Len(last.zf0.fileHeaders) :
        last.zf0.fileHeaders[i].compressionMethod # COMPRESS_STORED}

\* the path name and its temporary path are as before the call
Unwritten(name) ==
    /\ Exists(fs, name) = Exists(last.fs0, name)
    /\ Exists(fs, name) => fs[name] = last.fs0[name]
    /\ Exists(fs, tempName(name)) = Exists(last.fs0, tempName(name))
    /\ Exists(fs, tempName(name)) => fs[tempName(name)] = last.fs0[tempName(name)]

\* C10: ExtractFile of an entry that is not stored fails with the
\* unsupported-method error and writes nothing; ExtractAll on a File with such
\* an entry does not succeed, and if it gets to such an entry it fails with
\* that error; neither writes the destination or the temporary file of an
\* entry that is not stored.
C10_ExtractUnsupported ==
    /\ (/\ last.op = "ExtractFile"
        /\ IndexOfName(last.zf0.fileHeaders, last.name) # 0
        /\ Target.compressionMethod # COMPRESS_STORED)
           => (last.err = "deflate" /\ fs = last.fs0)
    /\ (last.op = "ExtractAll" /\ Unstored # {})
           => /\ ~Succeeded
              /\ \A i \in Unstored : Unwritten(last.zf0.fileHeaders[i].fileName)

----------------------------------------------------------------------------
(* Extraction of an entry whose data does not match its checksum *)

\* where ExtractFile finds the data of the entry it was asked for
TargetStart ==
    Target.offsetLocalHeader + 30
      + ((Target.nameLength + Uint16(last.zf0.file.data, Target.offsetLocalHeader + 28)) % 65536)

\* the bytes ExtractFile copies for the entry it was asked for
TargetBytes == Window(last.zf0.file.data, TargetStart, Target.compressedSize)

\* the latest call is an ExtractFile that got to the checksum of the copied
\* bytes, and they do not have the checksum of the header
CrcMismatch ==
    /\ last.op = "ExtractFile"
    /\ last.zf0.file.st = "open"
    /\ IndexOfName(last.zf0.fileHeaders, last.name) # 0
    /\ Target.compressionMethod # COMPRESS_DEFLATED
    /\ CanRead(last.zf0.file.data, Target.offsetLocalHeader + 28, 2)
    /\ last.fault[1] \notin {"seek", "read", "create", "copy"}
    /\ ChecksumIEEE(TargetBytes) # Target.crc

----------------------------------------------------------------------------
(* The search for the end-of-central-directory record *)

\* the latest call is an OpenWithFs that got to readDirectory
ReadCalled ==
    /\ last.op = "OpenWithFs"
    /\ last.fault = NoFault
    /\ Exists(last.fs0, ArchiveName)

\* the stream readDirectory read
Stream == last.fs0[ArchiveName]

\* the offsets at which a record of 22 bytes fits and the signature stands
SignatureOffsets(data) ==
    {q \in 0..(Len(data) - 22) : Slice(data, q, q + 4) = SigEOCD}

Greatest(S) == CHOOSE q \in S : \A r \in S : r <= q

\* C12: the backward scan for the end-of-central-directory record ends for
\* every stream, the empty one and those shorter than 22 bytes included: it
\* tests the offsets from size - 22 down to 0 inclusive, reads the record at
\* the greatest of them that holds 50 4B 05 06, and when none does OpenWithFs
\* returns the error of a missing record, without a panic.
C12_ScanEnds ==
    ReadCalled =>
        IF SignatureOffsets(Stream) = {}
        THEN last.err = "noeocd" /\ live = "none"
        ELSE [err |-> last.err, zf |-> zf] = ReadFrom(Stream, Greatest(SignatureOffsets(Stream)))

\* the record is found at the offset 0, the last one the scan tests
C12_Witness ==
    /\ ReadCalled
    /\ Stream = EmptyArchive
    /\ SignatureOffsets(Stream) = {0}
    /\ Succeeded

\* the offset of the record that the writer put before the comment c
TrueRecord(data, c) == Len(data) - Len(c) - 22

\* the File holds the fields of the record at the offset p and the comment c
Reports(data, p, c) ==
    /\ zf.numEntries = Uint16(data, p + 10)
    /\ zf.centralDirSize = Uint32(data, p + 12)
    /\ zf.centralDirOffset = Uint32(data, p + 16)
    /\ zf.commentLength = Len(c)
    /\ zf.comment = c

\* C13: whatever the bytes and the length of the archive comment, OpenWithFs
\* of an archive that is well formed finds the end-of-central-directory
\* record that is followed by exactly the comment up to the end of the stream,
\* and reports the entry count, the offset and size of the central directory
\* and the comment of that record.
C13_CommentLocated ==
    \A c \in Comments :
        (ReadCalled /\ Stream = CommentArchive(c))
            => Succeeded /\ Reports(Stream, TrueRecord(Stream, c), c)

----------------------------------------------------------------------------
(* Truncated archives *)

\* archives that are well formed, whatever their comment holds
WellFormedArchives == {TwoArchive, EmptyArchive} \cup {CommentArchive(c) : c \in Comments}

IsPrefix(p, a) == Len(p) <= Len(a) /\ p = SubSeq(a, 1, Len(p))

\* the latest call is an OpenWithFs that read a prefix of a well-formed archive
ReadPrefix == ReadCalled /\ \E a \in WellFormedArchives : IsPrefix(Stream, a)

\* the errors readDirectory returns
ReadErrors ==
    {"noeocd", "comment", "centralread", "malformed46", "centralsig", "malformeddata",
     "localread", "localsig", "localname"}

\* C14: OpenWithFs of a well-formed archive cut at any length either succeeds,
\* and the caller has an open File, or returns an error of readDirectory; it
\* never reads the central-directory buffer or the buffers of 22 and 30 bytes
\* outside their bounds, and never panics.
C14_PrefixSafe ==
    ReadPrefix =>
        /\ last.err \in ReadErrors \cup {OK}
        /\ live = IF last.err = OK THEN "open" ELSE "none"

\* a cut archive in which a record claims an entry that its directory of 10
\* bytes cannot hold
C14_Witness ==
    /\ ReadPrefix
    /\ Stream # CommentArchive(ShortDirectoryComment)
    /\ IsPrefix(Stream, CommentArchive(ShortDirectoryComment))
    /\ last.err = "malformed46"

----------------------------------------------------------------------------
(* The records of the central directory *)

\* the record readDirectory read, and where it found it
FoundAt == Greatest(SignatureOffsets(Stream))
Found == EndRecord(Slice(Stream, FoundAt, FoundAt + 22))

\* the latest call is an OpenWithFs that got to the loop over the records of
\* the central directory
ReadParsed ==
    /\ ReadCalled
    /\ SignatureOffsets(Stream) # {}
    /\ CanRead(Stream, FoundAt + 22, Found.commentLength)
    /\ CanRead(Stream, Found.centralDirOffset, Found.centralDirSize)

\* the buffer of centralDirSize bytes
Directory ==
    Slice(Stream, Found.centralDirOffset, Found.centralDirOffset + Found.centralDirSize)

\* what is wrong with the record at the offset i of the buffer, OK if nothing
RecordError(buffer, i) ==
    IF Len(buffer) - i < 46 THEN "malformed46"
    ELSE IF Slice(buffer, i, i + 4) # SigCentral THEN "centralsig"
    ELSE IF Len(buffer) - i - 46
              < Uint16(buffer, i + 28) + Uint16(buffer, i + 30) + Uint16(buffer, i + 32)
         THEN "malformeddata"
    ELSE OK

\* the offset after the record at the offset i
RecordEnd(buffer, i) ==
    i + 46 + Uint16(buffer, i + 28) + Uint16(buffer, i + 30) + Uint16(buffer, i + 32)

\* the offsets of the first n records, up to the first one with an error
RECURSIVE RecordOffsets(_, _, _)
RecordOffsets(buffer, i, n) ==
    IF n = 0 THEN <<>>
    ELSE IF RecordError(buffer, i) # OK THEN <<i>>
    ELSE <<i>> \o RecordOffsets(buffer, RecordEnd(buffer, i), n - 1)

\* the header is the record at the offset i, but for the extra length of the
\* local header
CarriesRecord(h, buffer, i) == [h EXCEPT !.extraLengthLocal = 0] = CentralHeaderAt(buffer, i)

\* offs are the offsets of the records the loop gets to
ParsedAs(buffer, n, offs) ==
    IF offs # <<>> /\ RecordError(buffer, offs[Len(offs)]) # OK
    THEN last.err = RecordError(buffer, offs[Len(offs)])
    ELSE /\ last.err \notin {"malformed46", "centralsig", "malformeddata"}
         /\ Len(offs) = n
         /\ Succeeded =>
               /\ Len(zf.fileHeaders) = n
               /\ \A k \in 1..n : CarriesRecord(zf.fileHeaders[k], buffer, offs[k])

\* C15: the loop over the numEntries records of the central-directory buffer
\* makes OpenWithFs fail at the first record of which fewer than 46 bytes
\* remain, whose signature is not 50 4B 01 02, or after whose fixed part fewer
\* than nameLength + extraLength + commentLength bytes remain; otherwise it
\* takes one header from the record and goes on 46 + nameLength + extraLength
\* + commentLength bytes further, so that a successful OpenWithFs holds
\* exactly numEntries headers, in the order of the records.
C15_CentralRecords ==
    ReadParsed => ParsedAs(Directory, Found.numEntries,
                           RecordOffsets(Directory, 0, Found.numEntries))

\* two records, the second one found after the name of the first
C15_Witness ==
    /\ ReadParsed
    /\ Succeeded
    /\ Stream = TwoArchive
    /\ Len(zf.fileHeaders) = 2
    /\ RecordOffsets(Directory, 0, Found.numEntries) = <<0, 47>>

----------------------------------------------------------------------------
(* The local file headers *)

\* what is wrong with the local header at the offset off of the stream, for
\* an entry whose name in the central directory has nl bytes; OK if nothing
LocalError(data, off, nl) ==
    IF Len(data) - off < 30 THEN "localread"
    ELSE IF Slice(data, off, off + 4) # SigLocal THEN "localsig"
    ELSE IF Uint16(data, off + 26) # nl THEN "localname"
    ELSE OK

\* the error of the local header of the record at the offset i of the buffer
LocalErrorOf(buffer, i) == LocalError(Stream, Uint32(buffer, i + 42), Uint16(buffer, i + 28))

\* the records whose local header has an error
BadLocals(buffer, offs) == {k \in 1..Len(offs) : LocalErrorOf(buffer, offs[k]) # OK}

Least(S) == CHOOSE q \in S : \A r \in S : q <= r

\* offs are the offsets of the records, all of them parsed
LocalsAs(buffer, offs, bad) ==
    IF bad # {}
    THEN last.err = LocalErrorOf(buffer, offs[Least(bad)])
    ELSE /\ Succeeded
         /\ \A k \in 1..Len(offs) :
               zf.fileHeaders[k].extraLengthLocal
                 = Uint16(Stream, zf.fileHeaders[k].offsetLocalHeader + 28)

\* none of the n records has an error
AllParsed(buffer, n, offs) ==
    Len(offs) = n /\ (n > 0 => RecordError(buffer, offs[n]) = OK)

\* the latest call is an OpenWithFs that parsed every record of the central
\* directory
ReadChecked ==
    /\ ReadParsed
    /\ AllParsed(Directory, Found.numEntries, RecordOffsets(Directory, 0, Found.numEntries))

\* C16: once the central directory is parsed, OpenWithFs fails if for some
\* entry the 30 bytes at its offsetLocalHeader cannot be read, do not start
\* with 50 4B 03 04, or hold a name length other than the one of the central
\* directory; when OpenWithFs succeeds, the extraLengthLocal of every entry is
\* the extra-length field of its local header, whatever extraLengthCentral is.
C16_LocalHeaders ==
    ReadChecked =>
        LocalsAs(Directory, RecordOffsets(Directory, 0, Found.numEntries),
                 BadLocals(Directory, RecordOffsets(Directory, 0, Found.numEntries)))

\* an entry whose local header has an extra field and whose central record
\* has none
C16_Witness ==
    /\ ReadChecked
    /\ Succeeded
    /\ Stream = TwoArchive
    /\ zf.fileHeaders[1].extraLengthLocal = 1
    /\ zf.fileHeaders[1].extraLengthCentral = 0

----------------------------------------------------------------------------
(* What OpenWithFs reports of a well-formed archive *)

\* the arguments of the writer for the well-formed archives read
WrittenArchives ==
    {[es |-> TwoEntries, comment |-> <<35>>], [es |-> << >>, comment |-> << >>]}
        \cup {[es |-> OneEntry, comment |-> c] : c \in Comments}

\* the header of the entry e whose local header the writer put at offset
ExpectedHeader(e, offset) ==
    [versionMadeBy |-> 20, versionNeeded |-> 20, flags |-> 0,
     compressionMethod |-> e.method, dosTime |-> 19076, dosDate |-> 22910,
     crc |-> RecordedCrc(e), compressedSize |-> Len(e.data),
     uncompressedSize |-> Len(e.data), nameLength |-> Len(e.name),
     extraLengthLocal |-> e.xl, extraLengthCentral |-> e.xc,
     commentLength |-> Len(e.comment), internalAttr |-> 1, externalAttr |-> 32,
     offsetLocalHeader |-> offset, fileName |-> e.name, comment |-> e.comment]

\* the File holds what the writer stored for the entries es and the comment
ReportsWritten(es, comment) ==
    /\ zf.numEntries = Len(es)
    /\ zf.commentLength = Len(comment)
    /\ zf.comment = comment
    /\ zf.centralDirOffset = Len(TestLocals(es, 1))
    /\ zf.centralDirSize = Len(TestCentrals(es, 1))
    /\ zf.fileHeaders
         = [k \in 1..Len(es) |->
               ExpectedHeader(es[k], Len(TestLocals(SubSeq(es, 1, k - 1), 1)))]

\* C17: OpenWithFs of a well-formed archive succeeds and reports numEntries,
\* commentLength, comment, centralDirOffset and centralDirSize as they are
\* stored in its end-of-central-directory record, and its i-th header carries
\* the versions, flags, method, dosTime, dosDate, crc, sizes, lengths,
\* attributes, offsetLocalHeader, name and comment of the i-th record of the
\* central directory.
C17_ReportsStored ==
    \A w \in WrittenArchives :
        (ReadCalled /\ Stream = makeTestZipStore(w.es, w.comment))
            => Succeeded /\ ReportsWritten(w.es, w.comment)

----------------------------------------------------------------------------
(* MS-DOS dates and times *)

\* the header holds the date and time of the time stamped
Stamped == last.op = "timeToDosDateTime"

\* C18: timeToDosDateTime returns dosTime = hour<<11 | minute<<5 | second/2
\* and dosDate = (year-1980)<<9 | month<<5 | day; the fields do not overlap,
\* so each value is the sum of its shifted fields.
C18_DosFields ==
    Stamped =>
        /\ zf.fileHeaders[1].dosTime
             = last.time.hour * 2048 + last.time.minute * 32 + (last.time.second \div 2)
        /\ zf.fileHeaders[1].dosDate
             = (last.time.year - 1980) * 512 + last.time.month * 32 + last.time.day

\* C19: for a time of the year 1980 or later, dosToTime of the date and time
\* that timeToDosDateTime returns gives back the year, month, day, hour and
\* minute, and the second within its 2-second slot.
C19_RoundTrip ==
    (last.op = "getDateTime" /\ last.time.year >= 1980) =>
        /\ last.back.year = last.time.year
        /\ last.back.month = last.time.month
        /\ last.back.day = last.time.day
        /\ last.back.hour = last.time.hour
        /\ last.back.minute = last.time.minute
        /\ last.back.second \div 2 = last.time.second \div 2

----------------------------------------------------------------------------
(* Creation of an archive *)

\* the latest call is CreateWithFs(fs, ArchiveName, name, stored) where no
\* archive exists
CreatedNew ==
    /\ last.op = "CreateWithFs"
    /\ last.method = COMPRESS_STORED
    /\ ~Exists(last.fs0, ArchiveName)

\* C20: CreateWithFs(archive, file, stored) where no file exists at the
\* archive path starts from the empty File and never reads the original
\* stream, which is nil, so it does not panic; when it succeeds the archive
\* path holds a valid archive of exactly one entry, named file, with the data
\* of the source file, and the File returned is open on it; when it does not
\* succeed no file exists at the archive path.
C20_CreateNew ==
    CreatedNew =>
        /\ last.err # "panic"
        /\ live # "crashed"
        /\ Succeeded =>
              /\ Opened0(zf, fs)
              /\ AddedTo(EmptyFile, last.fs0, last.name, readDirectory(fs[ArchiveName]), fs)
        /\ ~Succeeded => ~Exists(fs, ArchiveName)

----------------------------------------------------------------------------
(* The layout of a rewritten archive *)

\* the latest call wrote the archive from a File that was as OpenWithFs gives
\* it, or from the empty File of CreateWithFs, and committed it; the seeks on
\* the sources of the data did not fail
Rewritten ==
    /\ last.op \in {"AddFile", "RemoveFile", "CreateWithFs"}
    /\ Succeeded
    /\ last.op = "RemoveFile" => IndexOfName(last.zf0.fileHeaders, last.name) # 0
    /\ last.op # "CreateWithFs" => Opened0(last.zf0, last.fs0)
    /\ last.fault[1] \notin {"src_seek", "new_seek"}

\* the number of data bytes written for the k-th entry: the source file for
\* the entry added, compressedSize bytes of the old archive for the others
DataBytes(k) ==
    IF last.op # "RemoveFile" /\ k = Len(zf.fileHeaders)
    THEN Len(last.fs0[last.name])
    ELSE zf.fileHeaders[k].compressedSize

\* the offset after the local header and the data of the k-th entry
EntryEnd(k) ==
    zf.fileHeaders[k].offsetLocalHeader + 30 + zf.fileHeaders[k].nameLength + DataBytes(k)

\* the sum over the headers hs of 46 + nameLength + commentLength
RECURSIVE DirectorySize(_)
DirectorySize(hs) ==
    IF hs = <<>> THEN 0
    ELSE 46 + Head(hs).nameLength + Head(hs).commentLength + DirectorySize(Tail(hs))

\* the end-of-central-directory record of the stream data stands at p and
\* holds the offset and size of the File
RecordAt(data, p) ==
    /\ Len(data) >= p + 22
    /\ Slice(data, p, p + 4) = SigEOCD
    /\ Uint32(data, p + 12) = zf.centralDirSize
    /\ Uint32(data, p + 16) = zf.centralDirOffset

\* C21: in an archive written by writeArchive, whatever offsets and extra
\* lengths the old archive recorded, the local header of the first entry is at
\* offset 0, the one of each following entry at the offset of the previous
\* entry + 30 + its nameLength + the number of its data bytes written;
\* centralDirOffset is the position after the data of the last entry,
\* centralDirSize the sum over the entries of 46 + nameLength + commentLength,
\* and the end-of-central-directory record starts at centralDirOffset +
\* centralDirSize.
C21_FreshOffsets ==
    Rewritten =>
        /\ \A k \in 1..Len(zf.fileHeaders) :
              zf.fileHeaders[k].offsetLocalHeader = IF k = 1 THEN 0 ELSE EntryEnd(k - 1)
        /\ zf.centralDirOffset
             = IF zf.fileHeaders = <<>> THEN 0 ELSE EntryEnd(Len(zf.fileHeaders))
        /\ zf.centralDirSize = DirectorySize(zf.fileHeaders)
        /\ RecordAt(fs[ArchiveName], zf.centralDirOffset + zf.centralDirSize)

----------------------------------------------------------------------------
(* The entry count *)

\* the latest call committed an archive it wrote
Committed ==
    /\ last.op \in {"AddFile", "RemoveFile", "CreateWithFs"}
    /\ Succeeded
    /\ last.op = "RemoveFile" => IndexOfName(last.zf0.fileHeaders, last.name) # 0

\* the two entry counts of the end-of-central-directory record at p
CountsAt(data, p, n) == Uint16(data, p + 8) = n /\ Uint16(data, p + 10) = n

\* C22: in every state reached by OpenWithFs, CreateWithFs, AddFile and
\* RemoveFile calls, those that fail at an I/O step included, numEntries is
\* the length of the header sequence of the File; so the two entry counts of
\* an end-of-central-directory record written are the number of
\* central-directory records written before it.
C22_EntryCount ==
    live # "crashed" =>
        /\ zf.numEntries = Len(zf.fileHeaders)
        /\ Committed => CountsAt(fs[ArchiveName], zf.centralDirOffset + zf.centralDirSize,
                                 Len(zf.fileHeaders))

----------------------------------------------------------------------------
(* I/O failures in writeArchive *)

\* the seeks, reads and writes of writeArchive
WriteArchiveSteps ==
    {"wa_seek0", "src_seek", "new_seek", "out_seek", "lh_write", "copy", "cd_seek",
     "cd_write", "size_seek", "eocd_write"}

\* the archive path is as before the call
ArchiveKept ==
    /\ Exists(fs, ArchiveName) = Exists(last.fs0, ArchiveName)
    /\ Exists(fs, ArchiveName) => fs[ArchiveName] = last.fs0[ArchiveName]

\* C23: when a seek, read or write of writeArchive fails, the writes of the
\* fields of a local header and the seeks on the original archive and on the
\* data of the new entry included, writeArchive returns the error, so the
\* call fails at the writing and its temporary file is not renamed onto the
\* archive.
C23_WriteErrors ==
    (/\ last.op \in {"AddFile", "RemoveFile", "CreateWithFs"}
     /\ last.fault[1] \in WriteArchiveSteps)
        => /\ ~Succeeded
           /\ ArchiveKept

----------------------------------------------------------------------------
(* The bytes ExtractFile writes *)

\* offsetLocalHeader + 30 + nameLength + L for the entry ExtractFile was asked
\* for, L being the extra length in its local header
TrueStart ==
    Target.offsetLocalHeader + 30 + Target.nameLength
      + Uint16(last.zf0.file.data, Target.offsetLocalHeader + 28)

\* C24: a successful ExtractFile leaves at the destination exactly the
\* compressedSize bytes of the archive that start at offsetLocalHeader + 30 +
\* nameLength + L, L being the extra-length field of the local header of the
\* entry as read at the extraction; the sum is taken without wraparound,
\* for every nameLength and L of 16 bits.
C24_ExtractWindow ==
    (last.op = "ExtractFile" /\ Succeeded) =>
        /\ Len(fs[last.name]) = Target.compressedSize
        /\ fs[last.name] = Window(last.zf0.file.data, TrueStart, Target.compressedSize)

----------------------------------------------------------------------------
(* The sizes of stored entries *)

\* C25: in every state of a File that OpenWithFs or CreateWithFs returned,
\* after the opening of any archive OpenWithFs accepts and after any AddFile
\* or RemoveFile, every header whose compressionMethod is stored has
\* compressedSize equal to uncompressedSize.
C25_StoredSizes ==
    live = "open" =>
        \A k \in 1..Len(zf.fileHeaders) :
            zf.fileHeaders[k].compressionMethod = COMPRESS_STORED
                => zf.fileHeaders[k].compressedSize = zf.fileHeaders[k].uncompressedSize

\* the finished call has the outcome of the call taken as a whole
StepsAgree ==
    (live \in {"open", "crashed"} /\ last.op \in {"AddFile", "RemoveFile"}) =>
        [err |-> last.err, at |-> last.at, z |-> zf, f |-> fs]
            = IF last.op = "AddFile"
              THEN AddFileOutcome(last.zf0, last.fs0, last.name, last.method, last.fault)
              ELSE RemoveFileOutcome(last.zf0, last.fs0, last.name, last.fault)

\* the call in hand got past writeArchive, whose output is last.out
Staged == "out" \in DOMAIN last

\* the archive that the call in hand writes when every write goes through
IntendedArchive ==
    IF last.op = "AddFile"
    THEN writeArchive([Unlist(last.zf0, last.name) EXCEPT
                          !.numEntries = (Unlist(last.zf0, last.name).numEntries + 1) % 65536],
                      TRUE, NewHeader(last.fs0[last.name], last.name, last.method),
                      last.fs0[last.name], NoFault).out
    ELSE writeArchive(Unlist(last.zf0, last.name), FALSE, ZeroHeader, <<>>, NoFault).out

\* C26: the commit of AddFile and RemoveFile goes in the order complete new
\* archive written to the temp file, original handle closed, temp file
\* closed, temp file renamed over the archive path, archive path reopened;
\* before the rename the archive path holds the old archive and the temp
\* file the new one, after it the archive path holds the new archive and no
\* temp file is left; on a successful return the handle is open on the new
\* archive
C26_CommitOrder ==
    /\ (live \in CommitPositions \cup {"open"} /\ Staged) => last.out = IntendedArchive
    /\ live \in {"written", "closed_orig", "closed_tmp"} =>
          /\ fs[tempName(ArchiveName)] = last.out
          /\ fs[ArchiveName] = last.fs0[ArchiveName]
    /\ live = "written" => zf.file.st = last.zf0.file.st
    /\ live \in {"closed_orig", "closed_tmp", "renamed"} => zf.file.st # "open"
    /\ live = "renamed" =>
          /\ fs[ArchiveName] = last.out
          /\ ~Exists(fs, tempName(ArchiveName))
    /\ (live = "open" /\ Staged /\ last.err = OK) =>
          /\ last.at = "done"
          /\ fs[ArchiveName] = last.out
          /\ zf.file = OpenHandle(last.out)
          /\ ~Exists(fs, tempName(ArchiveName))
    /\ (live \in CommitPositions \cup {"open"} /\ Staged) =>
          fs[ArchiveName] \in {last.fs0[ArchiveName], last.out}
    /\ StepsAgree

\* the entry k of the File was in the archive before the call
Retained(k) == ~(last.op = "AddFile" /\ k = Len(zf.fileHeaders))

\* the header that the entry k had before the call
HeaderBefore(k) ==
    last.zf0.fileHeaders[IndexOfName(last.zf0.fileHeaders, zf.fileHeaders[k].fileName)]

\* the data of the entry k in the original archive, behind the local header
\* with its local extra field
DataBefore(k) ==
    Window(last.zf0.file.data,
           HeaderBefore(k).offsetLocalHeader + 30 + HeaderBefore(k).nameLength
               + HeaderBefore(k).extraLengthLocal,
           HeaderBefore(k).compressedSize)

\* the data of the entry k in the archive path, behind the local header that
\* the rewrite wrote without extra field
DataAfter(k) ==
    Window(fs[ArchiveName],
           zf.fileHeaders[k].offsetLocalHeader + 30 + zf.fileHeaders[k].nameLength,
           zf.fileHeaders[k].compressedSize)

\* C27: after a successful rewrite of an archive opened by OpenWithFs, the data
\* of every retained entry in the new archive is the compressedSize bytes
\* that the original archive holds at offsetLocalHeader + 30 + nameLength +
\* extraLengthLocal, with the entry's values from before the rewrite
C27_RetainedData ==
    (/\ last.op \in {"AddFile", "RemoveFile"}
     /\ Succeeded
     /\ Opened0(last.zf0, last.fs0)
     /\ last.op = "RemoveFile" => IndexOfName(last.zf0.fileHeaders, last.name) # 0) =>
        \A k \in 1..Len(zf.fileHeaders) :
            Retained(k) => /\ Len(DataAfter(k)) = zf.fileHeaders[k].compressedSize
                           /\ DataAfter(k) = DataBefore(k)

\* the data that the archive data holds for the header fh read from it
EntryData(data, fh) ==
    Window(data, fh.offsetLocalHeader + 30 + fh.nameLength + fh.extraLengthLocal,
           fh.compressedSize)

\* readDirectory gave rd for the archive data, and every entry has data of
\* length compressedSize with the checksum of its header
SoundRead(data, rd) ==
    /\ rd.err = OK
    /\ \A k \in 1..Len(rd.zf.fileHeaders) :
          /\ Len(EntryData(data, rd.zf.fileHeaders[k])) = rd.zf.fileHeaders[k].compressedSize
          /\ checkCrc(rd.zf.fileHeaders[k].crc, EntryData(data, rd.zf.fileHeaders[k]))

SoundArchive(data) == SoundRead(data, readDirectory(data))

\* C28: from a File opened on an archive whose entries match their checksums,
\* through AddFile and RemoveFile calls any of which may fail at any step,
\* the archive path always holds an archive that opens and whose entries
\* have data of length compressedSize with the checksum of the header
C28_CommittedSound == SoundArchive(fs[ArchiveName])

\* the file name has the same existence and bytes in f and in g
SameFile(f, g, name) ==
    /\ Exists(f, name) = Exists(g, name)
    /\ Exists(f, name) => f[name] = g[name]

\* the files other than those of names are the same after the call as before
OthersKept(names) ==
    \A n \in (DOMAIN fs \cup DOMAIN last.fs0) \ names : SameFile(fs, last.fs0, n)

\* the destination paths of the latest extraction
Destinations ==
    IF last.op = "ExtractFile" THEN {last.name}
    ELSE {last.zf0.fileHeaders[k].fileName : k \in 1..Len(last.zf0.fileHeaders)}

\* C29: ExtractFile and ExtractAll leave the archive bytes, the headers and
\* the end-record summary of the File as they were, and leave every file
\* other than the destination paths of the extracted entries as it was,
\* the archive path and a file already called <name>.tmp included
C29_ExtractReadsOnly ==
    last.op \in {"ExtractFile", "ExtractAll"} =>
        /\ [zf EXCEPT !.file = last.zf0.file] = last.zf0
        /\ zf.file.st = last.zf0.file.st
        /\ zf.file.data = last.zf0.file.data
        /\ SameFile(fs, last.fs0, ArchiveName)
        /\ OthersKept(Destinations)

\* C30: AddFile and RemoveFile leave every file that existed before the call,
\* other than the archive path, as it was: the source file and a file already
\* called <archive>.tmp included, whether the call succeeds or fails
C30_RewriteKeepsFiles ==
    last.op \in {"AddFile", "RemoveFile"} =>
        \A n \in DOMAIN last.fs0 \ {ArchiveName} : SameFile(fs, last.fs0, n)

====
